---- MODULE Spec2Model ----
(***************************************************************************)
(* Backtesting engine of Chapter-1/backtesting: generate_signals,          *)
(* simulate_macd_strategy, backtest_buy_and_hold, simulate_random_strategy *)
(* (backtest_stocks.py) and generate_trade_log (trade_log.py).             *)
(*                                                                         *)
(* One behaviour is one call of one of these functions on one DataFrame.   *)
(* The DataFrame is held column by column; rows are numbered from 1 here   *)
(* (row k of the model is pandas row k-1).  Prices, cash and capital are   *)
(* integers (money in its smallest unit); values the code computes by true *)
(* division (avg_cost, returns, portfolio values of buy-and-hold) are      *)
(* exact fractions <<n, d>>, and NaN is the fraction <<0, 0>>.             *)
(***************************************************************************)
EXTENDS Integers, Sequences, FiniteSets

\* ---------------------------------------------------------------- bounds
MaxLen == 3
MaxPrice == 3
MaxCapital == 4
MaxChunk == 2
MaxInd == 1

\* Bounds of the runs of simulate_random_strategy alone (SpecRandomWide):
\* longer series over fewer prices, with chunks of several shares.
WideLen == 4
WidePrice == 2
WideChunk == 5
WideCapital == 5

\* ------------------------------------------------------- optional values
\* Python's None, and a value that is present.
None == <<>>
Some(x) == <<x>>
Val(o) == o[1]

\* ---------------------------------------------------------------- floats
\* A float is NaN or a fraction <<n, d>> with d > 0 in lowest terms.
NaN == <<0, 0>>
IsNaN(x) == x[2] = 0

Abs(n) == IF n < 0 THEN -n ELSE n

RECURSIVE GCD(_, _)
GCD(a, b) == IF b = 0 THEN a ELSE GCD(b, a % b)

Frac(n, d) ==
    LET g == GCD(Abs(n), Abs(d))
        s == IF d < 0 THEN -1 ELSE 1
    IN  IF d = 0 THEN NaN ELSE <<(s * n) \div g, (s * d) \div g>>

Num(k) == <<k, 1>>

FAdd(a, b) == IF IsNaN(a) \/ IsNaN(b) THEN NaN
              ELSE Frac(a[1] * b[2] + b[1] * a[2], a[2] * b[2])
FSub(a, b) == IF IsNaN(a) \/ IsNaN(b) THEN NaN
              ELSE Frac(a[1] * b[2] - b[1] * a[2], a[2] * b[2])
FMul(a, b) == IF IsNaN(a) \/ IsNaN(b) THEN NaN
              ELSE Frac(a[1] * b[1], a[2] * b[2])
FDiv(a, b) == IF IsNaN(a) \/ IsNaN(b) THEN NaN
              ELSE Frac(a[1] * b[2], a[2] * b[1])
\* Mutant: a missing value is compared as 0, as after a fillna(0).
C17_FLtNaNAsZero(a, b) ==
    LET x == IF IsNaN(a) THEN <<0, 1>> ELSE a
        y == IF IsNaN(b) THEN <<0, 1>> ELSE b
    IN  x[1] * y[2] < y[1] * x[2]

\* Comparisons with NaN are False, as in IEEE 754.
FLt(a, b) == ~IsNaN(a) /\ ~IsNaN(b) /\ a[1] * b[2] < b[1] * a[2]
FGt(a, b) == FLt(b, a)

\* ----------------------------------------------------------------- state
VARIABLES
    fn,                 \* the function that was called
    pc,                 \* where the call stands
    i,                  \* the row the loop handles next
    initial_capital,    \* parameter
    chunk_size,         \* parameter (simulate_random_strategy)
    columns,            \* the columns of the caller's DataFrame
    c_price,            \* df['c_price']
    MACD,               \* df['MACD']
    Signal,             \* df['Signal']
    SignalFlag,         \* df['SignalFlag']
    MarketReturn,       \* df['MarketReturn']
    PortfolioValueBH,   \* df['PortfolioValueBH']
    PortfolioValue,     \* df['PortfolioValue']
    Cash,               \* df['Cash']
    Shares,             \* df['Shares']
    AvgCost,            \* df['AvgCost']
    cash,
    shares,
    buy_price,          \* simulate_macd_strategy
    avg_cost,           \* simulate_random_strategy
    entry_price,        \* generate_trade_log
    portfolio_values,
    cash_history,
    shares_history,
    avg_cost_history,
    trade_log,          \* trade_log of the simulators
    action,             \* the decision simulate_random_strategy drew last
    entry_date,         \* generate_trade_log
    trades,             \* generate_trade_log
    dates               \* df['date']

params == <<fn, initial_capital, chunk_size>>
inputs == <<c_price, MACD, Signal, dates>>
outcols == <<columns, MarketReturn, PortfolioValueBH, PortfolioValue, Cash, Shares, AvgCost>>
locals == <<cash, shares, buy_price, avg_cost, entry_price, entry_date, action>>
lists == <<portfolio_values, cash_history, shares_history, avg_cost_history, trade_log, trades>>
vars == <<params, pc, i, inputs, SignalFlag, outcols, locals, lists>>

NRows == Len(c_price)
\* row['date'] of row k.
date(k) == dates[k]

\* ------------------------------------------------------------------ Init
Prices == 1 .. MaxPrice
Flags == {-1, 0, 1}
Indicators == {NaN} \cup {Num(k) : k \in 0 .. MaxInd}
Lengths == 0 .. MaxLen
ConstCol(n, v) == [k \in 1 .. n |-> v]

\* What no function has assigned yet.
InitUnset ==
    /\ MarketReturn = <<>> /\ PortfolioValueBH = <<>> /\ PortfolioValue = <<>>
    /\ Cash = <<>> /\ Shares = <<>> /\ AvgCost = <<>>
    /\ buy_price = None /\ avg_cost = None /\ entry_price = None /\ entry_date = None
    /\ portfolio_values = <<>> /\ cash_history = <<>> /\ shares_history = <<>>
    /\ avg_cost_history = <<>> /\ trade_log = <<>> /\ trades = <<>>
    /\ action = "None" /\ shares = 0

InitGenerateSignals ==
    /\ fn = "generate_signals" /\ pc = "loop" /\ i = 2
    /\ initial_capital = 0 /\ chunk_size = 0 /\ cash = 0
    /\ \E n \in Lengths :
          /\ MACD \in [1 .. n -> Indicators]
          /\ Signal \in [1 .. n -> Indicators]
          /\ c_price = ConstCol(n, 1)
          /\ SignalFlag = ConstCol(n, 0)
    /\ columns = {"date", "c_price", "MACD", "Signal"}
    /\ InitUnset

InitSimulateMacd ==
    /\ fn = "simulate_macd_strategy" /\ pc = "loop" /\ i = 1
    /\ initial_capital \in 1 .. MaxCapital /\ chunk_size = 0
    /\ cash = initial_capital
    /\ \E n \in Lengths :
          /\ c_price \in [1 .. n -> Prices]
          /\ SignalFlag \in [1 .. n -> Flags]
          /\ MACD = ConstCol(n, NaN) /\ Signal = ConstCol(n, NaN)
    /\ columns = {"date", "c_price", "SignalFlag"}
    /\ InitUnset

InitBuyAndHold ==
    /\ fn = "backtest_buy_and_hold" /\ pc = "pct_change" /\ i = 1
    /\ initial_capital \in 1 .. MaxCapital /\ chunk_size = 0 /\ cash = 0
    /\ \E n \in Lengths :
          /\ c_price \in [1 .. n -> Prices]
          /\ SignalFlag = ConstCol(n, 0)
          /\ MACD = ConstCol(n, NaN) /\ Signal = ConstCol(n, NaN)
    /\ columns = {"date", "c_price"}
    /\ InitUnset

InitSimulateRandom ==
    /\ fn = "simulate_random_strategy" /\ pc = "loop" /\ i = 1
    /\ initial_capital \in 1 .. MaxCapital /\ chunk_size \in 1 .. MaxChunk
    /\ cash = initial_capital
    /\ \E n \in Lengths :
          /\ c_price \in [1 .. n -> Prices]
          /\ SignalFlag = ConstCol(n, 0)
          /\ MACD = ConstCol(n, NaN) /\ Signal = ConstCol(n, NaN)
    /\ columns = {"date", "c_price"}
    /\ InitUnset

InitGenerateTradeLog ==
    /\ fn = "generate_trade_log" /\ pc = "loop" /\ i = 1
    /\ initial_capital = 0 /\ chunk_size = 0 /\ cash = 0
    /\ \E n \in Lengths :
          /\ c_price \in [1 .. n -> Prices]
          /\ SignalFlag \in [1 .. n -> Flags]
          /\ MACD = ConstCol(n, NaN) /\ Signal = ConstCol(n, NaN)
    /\ columns = {"date", "c_price", "SignalFlag"}
    /\ InitUnset

\* A call of one of the functions on a series as the data preparation
\* delivers it: the dates ascend with the rows (the date of a row is its rank).
Init ==
    /\ \/ InitGenerateSignals
       \/ InitSimulateMacd
       \/ InitBuyAndHold
       \/ InitSimulateRandom
       \/ InitGenerateTradeLog
    /\ dates = [k \in 1 .. NRows |-> k]

\* A call of simulate_random_strategy with a chunk that buys several shares.
InitRandomWide ==
    /\ fn = "simulate_random_strategy" /\ pc = "loop" /\ i = 1
    /\ initial_capital \in 1 .. WideCapital /\ chunk_size \in 1 .. WideChunk
    /\ cash = initial_capital
    /\ \E n \in 0 .. WideLen :
          /\ c_price \in [1 .. n -> 1 .. WidePrice]
          /\ SignalFlag = ConstCol(n, 0)
          /\ MACD = ConstCol(n, NaN) /\ Signal = ConstCol(n, NaN)
    /\ columns = {"date", "c_price"}
    /\ InitUnset
    /\ dates = [k \in 1 .. NRows |-> k]

\* A call of a simulator or of generate_trade_log on a series whose dates do
\* not strictly ascend.
InitMalformed ==
    /\ \/ InitSimulateMacd
       \/ InitSimulateRandom
       \/ InitGenerateTradeLog
    /\ dates \in [1 .. NRows -> 1 .. NRows]
    /\ \E k \in 1 .. NRows - 1 : dates[k] >= dates[k+1]

\* ------------------------------------------------------ generate_signals
\* Mutant: the comparisons are not strict, so that touching lines count as
\* crossing.
C6_FLe(a, b) == ~IsNaN(a) /\ ~IsNaN(b) /\ a[1] * b[2] <= b[1] * a[2]

C6_CrossFlagNotStrict(m0, s0, m1, s1) ==
    IF C6_FLe(m0, s0) /\ C6_FLe(s1, m1) THEN 1
    ELSE IF C6_FLe(s0, m0) /\ C6_FLe(m1, s1) THEN -1
    ELSE 0

\* Mutant: the flag tells which line is above at the row, whatever the row
\* before was.
C24_CrossFlagOnLevel(m0, s0, m1, s1) ==
    IF FGt(m1, s1) THEN 1
    ELSE IF FLt(m1, s1) THEN -1
    ELSE 0

\* The flag of a row from the indicator pair of the row before (m0, s0) and
\* of the row itself (m1, s1): 1 buy, -1 sell, 0 otherwise.
CrossFlag(m0, s0, m1, s1) ==
    IF FLt(m0, s0) /\ FGt(m1, s1) THEN 1
    ELSE IF FGt(m0, s0) /\ FLt(m1, s1) THEN -1
    ELSE 0

\* Mutant: the crossover is looked for between the row and the row after it.
C11_StepLookingAhead ==
    /\ fn = "generate_signals" /\ pc = "loop" /\ i <= NRows
    /\ LET nxt == IF i < NRows THEN i + 1 ELSE i
       IN  SignalFlag' = [SignalFlag EXCEPT
                            ![i] = CrossFlag(MACD[i], Signal[i], MACD[nxt], Signal[nxt])]
    /\ i' = i + 1
    /\ UNCHANGED <<params, pc, inputs, outcols, locals, lists>>

GenerateSignalsStep ==
    /\ fn = "generate_signals" /\ pc = "loop" /\ i <= NRows
    /\ SignalFlag' = [SignalFlag EXCEPT
                         ![i] = CrossFlag(MACD[i-1], Signal[i-1], MACD[i], Signal[i])]
    /\ i' = i + 1
    /\ UNCHANGED <<params, pc, inputs, outcols, locals, lists>>

GenerateSignalsReturn ==
    /\ fn = "generate_signals" /\ pc = "loop" /\ i > NRows
    /\ pc' = "done"
    /\ UNCHANGED <<params, i, inputs, SignalFlag, outcols, locals, lists>>

\* ------------------------------------------------ simulate_macd_strategy
\* Mutant: the position is counted in shares, not valued at the price.
C1_ValueWithoutPrice(c, s, p) == c + s

\* portfolio_value = cash + shares * current_price
PortfolioValueOf(c, s, p) == c + s * p

\* Mutant: the share count rounded to the nearest, not down.
C9_SharesToBuyRounded(c, p) == (2 * c + p) \div (2 * p)

\* int(cash // current_price)
MacdSharesToBuy(c, p) == c \div p

\* Mutant: the profit per share, not of the position.
C10_PnLPerShare(sell_price, bp, s) == sell_price - bp

\* (sell_price - buy_price) * shares
MacdPnL(sell_price, bp, s) == (sell_price - bp) * s

\* Mutant: the three appends moved to the end of the loop body, after the
\* trade.
C3_SnapshotAfterTrade ==
    /\ portfolio_values' =
          Append(portfolio_values, cash' + shares' * c_price[i])
    /\ cash_history' = Append(cash_history, cash')
    /\ shares_history' = Append(shares_history, shares')

\* The three appends that open the loop body: they read the state the
\* iteration starts in.
MacdSnapshot ==
    /\ portfolio_values' =
          Append(portfolio_values, PortfolioValueOf(cash, shares, c_price[i]))
    /\ cash_history' = Append(cash_history, cash)
    /\ shares_history' = Append(shares_history, shares)

MacdBuyEntry(k, n, p, signal) ==
    [Date |-> date(k), Action |-> "Buy", Shares |-> n, Price |-> p,
     Signal |-> signal, PnL |-> None]

MacdSellEntry(k, n, p, signal, pnl) ==
    [Date |-> date(k), Action |-> "Sell", Shares |-> n, Price |-> p,
     Signal |-> signal, PnL |-> Some(pnl)]

\* Mutant: a Buy signal buys whether or not shares are already held.
C18_TradeBuyingWhileLong ==
    LET current_price == c_price[i]
        signal == SignalFlag[i]
        shares_to_buy == MacdSharesToBuy(cash, current_price)
    IN  IF signal = 1
        THEN IF shares_to_buy > 0
             THEN /\ buy_price' = Some(current_price)
                  /\ cash' = cash - shares_to_buy * current_price
                  /\ shares' = shares + shares_to_buy
                  /\ trade_log' = Append(trade_log,
                        MacdBuyEntry(i, shares_to_buy, current_price, signal))
             ELSE UNCHANGED <<buy_price, cash, shares, trade_log>>
        ELSE IF signal = -1 /\ shares > 0
        THEN /\ cash' = cash + shares * current_price
             /\ trade_log' = Append(trade_log,
                   MacdSellEntry(i, shares, current_price, signal,
                                 MacdPnL(current_price, Val(buy_price), shares)))
             /\ shares' = 0
             /\ buy_price' = None
        ELSE UNCHANGED <<buy_price, cash, shares, trade_log>>

\* Mutant: a sale is logged and paid but the position stays open.
C19_TradeSellingWithoutClosing ==
    LET current_price == c_price[i]
        signal == SignalFlag[i]
        shares_to_buy == MacdSharesToBuy(cash, current_price)
    IN  IF signal = 1 /\ shares = 0
        THEN IF shares_to_buy > 0
             THEN /\ buy_price' = Some(current_price)
                  /\ cash' = cash - shares_to_buy * current_price
                  /\ shares' = shares_to_buy
                  /\ trade_log' = Append(trade_log,
                        MacdBuyEntry(i, shares_to_buy, current_price, signal))
             ELSE UNCHANGED <<buy_price, cash, shares, trade_log>>
        ELSE IF signal = -1 /\ shares > 0
        THEN /\ cash' = cash + shares * current_price
             /\ trade_log' = Append(trade_log,
                   MacdSellEntry(i, shares, current_price, signal,
                                 MacdPnL(current_price, Val(buy_price), shares)))
             /\ UNCHANGED <<shares, buy_price>>
        ELSE UNCHANGED <<buy_price, cash, shares, trade_log>>

\* The if / elif of the loop body.
MacdTrade ==
    LET current_price == c_price[i]
        signal == SignalFlag[i]
        shares_to_buy == MacdSharesToBuy(cash, current_price)
    IN  IF signal = 1 /\ shares = 0
        THEN IF shares_to_buy > 0
             THEN /\ buy_price' = Some(current_price)
                  /\ cash' = cash - shares_to_buy * current_price
                  /\ shares' = shares_to_buy
                  /\ trade_log' = Append(trade_log,
                        MacdBuyEntry(i, shares_to_buy, current_price, signal))
             ELSE UNCHANGED <<buy_price, cash, shares, trade_log>>
        ELSE IF signal = -1 /\ shares > 0
        THEN /\ cash' = cash + shares * current_price
             /\ trade_log' = Append(trade_log,
                   MacdSellEntry(i, shares, current_price, signal,
                                 MacdPnL(current_price, Val(buy_price), shares)))
             /\ shares' = 0
             /\ buy_price' = None
        ELSE UNCHANGED <<buy_price, cash, shares, trade_log>>

\* One iteration of the loop over df.iterrows(): the snapshot of the state the
\* iteration starts in, then the trade.
MacdStep ==
    /\ fn = "simulate_macd_strategy" /\ pc = "loop" /\ i <= NRows
    /\ MacdTrade
    /\ MacdSnapshot
    /\ i' = i + 1
    /\ UNCHANGED <<params, pc, inputs, SignalFlag, outcols>>
    /\ UNCHANGED <<avg_cost, entry_price, entry_date, action, avg_cost_history, trades>>

\* The three column assignments on the DataFrame that was passed in.
MacdReturn ==
    /\ fn = "simulate_macd_strategy" /\ pc = "loop" /\ i > NRows
    /\ PortfolioValue' = portfolio_values
    /\ Cash' = cash_history
    /\ Shares' = shares_history
    /\ columns' = columns \cup {"PortfolioValue", "Cash", "Shares"}
    /\ pc' = "done"
    /\ UNCHANGED <<params, i, inputs, SignalFlag, locals, lists>>
    /\ UNCHANGED <<MarketReturn, PortfolioValueBH, AvgCost>>

\* ------------------------------------------------- backtest_buy_and_hold
\* Series.shift(1) of the prices, as floats.
Shifted(s, k) == IF k = 1 THEN NaN ELSE Num(s[k-1])

\* Series.pct_change(): s / s.shift(1) - 1.
PctChange(s) ==
    [k \in 1 .. Len(s) |-> FSub(FDiv(Num(s[k]), Shifted(s, k)), Num(1))]

\* The product of the values of s[1..k] that are not NaN.
RECURSIVE ProdSkipNaN(_, _)
ProdSkipNaN(s, k) ==
    IF k = 0 THEN Num(1)
    ELSE IF IsNaN(s[k]) THEN ProdSkipNaN(s, k - 1)
    ELSE FMul(ProdSkipNaN(s, k - 1), s[k])

\* Mutant: a running product that does not skip NaN, so that the NaN of the
\* first row spreads to every row after it.
RECURSIVE C5_ProdWithNaN(_, _)
C5_ProdWithNaN(s, k) ==
    IF k = 0 THEN Num(1) ELSE FMul(C5_ProdWithNaN(s, k - 1), s[k])

C5_CumProdKeepingNaN(s) == [k \in 1 .. Len(s) |-> C5_ProdWithNaN(s, k)]

\* Series.cumprod() (skipna=True): NaN where the value is NaN, and elsewhere
\* the running product of the values that are not.
CumProd(s) ==
    [k \in 1 .. Len(s) |-> IF IsNaN(s[k]) THEN NaN ELSE ProdSkipNaN(s, k)]

BuyAndHoldValues(returns, capital) ==
    LET growth == CumProd([k \in 1 .. Len(returns) |-> FAdd(Num(1), returns[k])])
    IN  [k \in 1 .. Len(returns) |-> FMul(growth[k], Num(capital))]

BuyAndHoldPctChange ==
    /\ fn = "backtest_buy_and_hold" /\ pc = "pct_change"
    /\ MarketReturn' = PctChange(c_price)
    /\ pc' = "cumprod"
    /\ UNCHANGED <<params, i, inputs, SignalFlag, locals, lists>>
    /\ UNCHANGED <<columns, PortfolioValueBH, PortfolioValue, Cash, Shares, AvgCost>>

BuyAndHoldCumProd ==
    /\ fn = "backtest_buy_and_hold" /\ pc = "cumprod"
    /\ PortfolioValueBH' = BuyAndHoldValues(MarketReturn, initial_capital)
    /\ pc' = "copy"
    /\ UNCHANGED <<params, i, inputs, SignalFlag, locals, lists>>
    /\ UNCHANGED <<columns, MarketReturn, PortfolioValue, Cash, Shares, AvgCost>>

BuyAndHoldCopy ==
    /\ fn = "backtest_buy_and_hold" /\ pc = "copy"
    /\ PortfolioValue' = PortfolioValueBH
    /\ pc' = "done"
    /\ UNCHANGED <<params, i, inputs, SignalFlag, locals, lists>>
    /\ UNCHANGED <<columns, MarketReturn, PortfolioValueBH, Cash, Shares, AvgCost>>

\* ---------------------------------------------- simulate_random_strategy
\* random.random() to one decimal: r stands for the draws in [r/10, (r+1)/10).
Draws == 0 .. 9

\* r < 0.6: "None"; r < 0.8: "Buy"; else "Sell".
Decision(r) == IF r < 6 THEN "None" ELSE IF r < 8 THEN "Buy" ELSE "Sell"

\* Mutant: the chunk's share count rounded up, not down.
C2_ChunkSharesRoundedUp(chunk, p) == (chunk + p - 1) \div p

\* int(chunk_size // current_price)
ChunkShares(chunk, p) == chunk \div p

\* Mutant: the plain mean of the old average cost and the new price, whatever
\* the sizes of the two lots.
C22_NewAvgCostUnweighted(s, ac, n, p) ==
    IF s = 0 THEN Num(p)
    ELSE FDiv(FAdd(ac, Num(p)), Num(2))

\* The if / else that sets avg_cost on a buy of n shares at price p.
NewAvgCost(s, ac, n, p) ==
    IF s = 0 THEN Num(p)
    ELSE FDiv(FAdd(FMul(Num(s), ac), Num(n * p)), Num(s + n))

\* Mutant: a sale at the average cost is let through.
C7_AtOrAboveCost(p, ac) == ~FLt(Num(p), ac)

\* current_price > avg_cost
AboveCost(p, ac) == FGt(Num(p), ac)

\* Mutant: the chunk's worth is sold whether or not that many shares are held.
C14_SharesToSellUncapped(chunk, p, s) == chunk \div p

\* shares_to_sell: the chunk's worth, capped by the shares held.
SharesToSell(chunk, p, s) ==
    IF ChunkShares(chunk, p) > s THEN s ELSE ChunkShares(chunk, p)

\* (current_price - avg_cost) * shares_to_sell
RandomPnL(p, ac, n) == FMul(FSub(Num(p), ac), Num(n))

RandomSnapshot ==
    /\ portfolio_values' =
          Append(portfolio_values, PortfolioValueOf(cash, shares, c_price[i]))
    /\ cash_history' = Append(cash_history, cash)
    /\ shares_history' = Append(shares_history, shares)
    /\ avg_cost_history' =
          Append(avg_cost_history, IF avg_cost # None THEN avg_cost ELSE Num(0))

RandomNoTrade == UNCHANGED <<cash, shares, avg_cost, trade_log>>

\* Mutant: a buy is made whenever the cash pays for one share, not only when
\* it covers a whole chunk.
C21_BuyOnAnyCash(act) ==
    LET current_price == c_price[i]
        shares_to_buy == IF ChunkShares(chunk_size, current_price) > cash \div current_price
                         THEN cash \div current_price
                         ELSE ChunkShares(chunk_size, current_price)
        new_avg == NewAvgCost(shares, avg_cost, shares_to_buy, current_price)
    IN  IF cash >= current_price /\ shares_to_buy > 0
        THEN /\ avg_cost' = new_avg
             /\ cash' = cash - shares_to_buy * current_price
             /\ shares' = shares + shares_to_buy
             /\ trade_log' = Append(trade_log,
                   [Date |-> date(i), Action |-> "Buy", Shares |-> shares_to_buy,
                    Price |-> current_price, Chunk |-> chunk_size,
                    NewAvgCost |-> new_avg, Signal |-> act])
        ELSE RandomNoTrade

\* The body of `if action == "Buy"`.
RandomBuy(act) ==
    LET current_price == c_price[i]
        shares_to_buy == ChunkShares(chunk_size, current_price)
        new_avg == NewAvgCost(shares, avg_cost, shares_to_buy, current_price)
    IN  IF cash >= chunk_size /\ shares_to_buy > 0
        THEN /\ avg_cost' = new_avg
             /\ cash' = cash - shares_to_buy * current_price
             /\ shares' = shares + shares_to_buy
             /\ trade_log' = Append(trade_log,
                   [Date |-> date(i), Action |-> "Buy", Shares |-> shares_to_buy,
                    Price |-> current_price, Chunk |-> chunk_size,
                    NewAvgCost |-> new_avg, Signal |-> act])
        ELSE RandomNoTrade

\* Mutant: the average cost is kept when the last share is sold.
C20_SellKeepingAvgCost(act) ==
    LET current_price == c_price[i]
        shares_to_sell == SharesToSell(chunk_size, current_price, shares)
    IN  IF shares_to_sell > 0
        THEN /\ cash' = cash + shares_to_sell * current_price
             /\ trade_log' = Append(trade_log,
                   [Date |-> date(i), Action |-> "Sell", Shares |-> shares_to_sell,
                    Price |-> current_price, Chunk |-> chunk_size,
                    PnL |-> RandomPnL(current_price, avg_cost, shares_to_sell),
                    Signal |-> act])
             /\ shares' = shares - shares_to_sell
             /\ UNCHANGED avg_cost
        ELSE RandomNoTrade

\* The branch of a "Sell" with shares held at a price above the average cost.
RandomSell(act) ==
    LET current_price == c_price[i]
        shares_to_sell == SharesToSell(chunk_size, current_price, shares)
    IN  IF shares_to_sell > 0
        THEN /\ cash' = cash + shares_to_sell * current_price
             /\ trade_log' = Append(trade_log,
                   [Date |-> date(i), Action |-> "Sell", Shares |-> shares_to_sell,
                    Price |-> current_price, Chunk |-> chunk_size,
                    PnL |-> RandomPnL(current_price, avg_cost, shares_to_sell),
                    Signal |-> act])
             /\ shares' = shares - shares_to_sell
             /\ avg_cost' = IF shares - shares_to_sell = 0 THEN None ELSE avg_cost
        ELSE RandomNoTrade

\* Mutant: the averaging-down buy is made whenever the cash pays for one
\* share, not only when it covers a whole chunk.
C15_AverageDownOnAnyCash(act) ==
    LET current_price == c_price[i]
        shares_to_buy == ChunkShares(chunk_size, current_price)
        new_avg == NewAvgCost(shares, avg_cost, shares_to_buy, current_price)
    IN  IF cash >= current_price /\ shares_to_buy > 0
        THEN /\ avg_cost' = new_avg
             /\ cash' = cash - shares_to_buy * current_price
             /\ shares' = shares + shares_to_buy
             /\ trade_log' = Append(trade_log,
                   [Date |-> date(i), Action |-> "Buy (Averaging Down)",
                    Shares |-> shares_to_buy, Price |-> current_price,
                    Chunk |-> chunk_size, NewAvgCost |-> new_avg, Signal |-> act])
        ELSE RandomNoTrade

\* Mutant: the averaging-down entry records the position after the buy, not
\* the shares bought.
C23_AverageDownLoggingPosition(act) ==
    LET current_price == c_price[i]
        shares_to_buy == ChunkShares(chunk_size, current_price)
        new_avg == NewAvgCost(shares, avg_cost, shares_to_buy, current_price)
    IN  IF cash >= chunk_size /\ shares_to_buy > 0
        THEN /\ avg_cost' = new_avg
             /\ cash' = cash - shares_to_buy * current_price
             /\ shares' = shares + shares_to_buy
             /\ trade_log' = Append(trade_log,
                   [Date |-> date(i), Action |-> "Buy (Averaging Down)",
                    Shares |-> shares + shares_to_buy, Price |-> current_price,
                    Chunk |-> chunk_size, NewAvgCost |-> new_avg, Signal |-> act])
        ELSE RandomNoTrade

\* The branch of a "Sell" with shares held at a price at or below the average
\* cost: another chunk is bought.
RandomAverageDown(act) ==
    LET current_price == c_price[i]
        shares_to_buy == ChunkShares(chunk_size, current_price)
        new_avg == NewAvgCost(shares, avg_cost, shares_to_buy, current_price)
    IN  IF cash >= chunk_size /\ shares_to_buy > 0
        THEN /\ avg_cost' = new_avg
             /\ cash' = cash - shares_to_buy * current_price
             /\ shares' = shares + shares_to_buy
             /\ trade_log' = Append(trade_log,
                   [Date |-> date(i), Action |-> "Buy (Averaging Down)",
                    Shares |-> shares_to_buy, Price |-> current_price,
                    Chunk |-> chunk_size, NewAvgCost |-> new_avg, Signal |-> act])
        ELSE RandomNoTrade

\* The if / elif on the decision.
RandomTrade(act) ==
    IF act = "Buy" THEN RandomBuy(act)
    ELSE IF act = "Sell"
    THEN IF shares > 0
         THEN IF AboveCost(c_price[i], avg_cost)
              THEN RandomSell(act)
              ELSE RandomAverageDown(act)
         ELSE RandomNoTrade
    ELSE RandomNoTrade

\* One iteration of the loop: the snapshot, the draw, the trade.
RandomStep ==
    /\ fn = "simulate_random_strategy" /\ pc = "loop" /\ i <= NRows
    /\ \E r \in Draws :
          /\ action' = Decision(r)
          /\ RandomTrade(Decision(r))
    /\ RandomSnapshot
    /\ i' = i + 1
    /\ UNCHANGED <<params, pc, inputs, SignalFlag, outcols>>
    /\ UNCHANGED <<buy_price, entry_price, entry_date, trades>>

RandomReturn ==
    /\ fn = "simulate_random_strategy" /\ pc = "loop" /\ i > NRows
    /\ PortfolioValue' = portfolio_values
    /\ Cash' = cash_history
    /\ Shares' = shares_history
    /\ AvgCost' = avg_cost_history
    /\ columns' = columns \cup {"PortfolioValue", "Cash", "Shares", "AvgCost"}
    /\ pc' = "done"
    /\ UNCHANGED <<params, i, inputs, SignalFlag, locals, lists>>
    /\ UNCHANGED <<MarketReturn, PortfolioValueBH>>

\* ---------------------------------------------------- generate_trade_log
\* Mutant: the profit taken from the entry price down to the exit price.
C16_PnLReversed(exit_price, ep) == ep - exit_price

\* exit_price - entry_price
TradePnL(exit_price, ep) == exit_price - ep

\* Mutant: a buy signal opens a trade whether or not one is open.
C8_OpensTradeAlways(signal, ep) == signal = 1

\* signal == 1 and entry_price is None
OpensTrade(signal, ep) == signal = 1 /\ ep = None

\* signal == -1 and entry_price is not None
ClosesTrade(signal, ep) == signal = -1 /\ ep # None

TradeLogStep ==
    /\ fn = "generate_trade_log" /\ pc = "loop" /\ i <= NRows
    /\ LET signal == SignalFlag[i]
           price == c_price[i]
       IN  IF OpensTrade(signal, entry_price)
           THEN /\ entry_price' = Some(price)
                /\ entry_date' = Some(date(i))
                /\ trades' = Append(trades,
                      [Date |-> date(i), Action |-> "Buy", Price |-> price,
                       SignalFlag |-> signal, PnL |-> None])
           ELSE IF ClosesTrade(signal, entry_price)
           THEN /\ trades' = Append(trades,
                      [Date |-> date(i), Action |-> "Sell", Price |-> price,
                       SignalFlag |-> signal,
                       PnL |-> Some(TradePnL(price, Val(entry_price)))])
                /\ entry_price' = None
                /\ entry_date' = None
           ELSE UNCHANGED <<entry_price, entry_date, trades>>
    /\ i' = i + 1
    /\ UNCHANGED <<params, pc, inputs, SignalFlag, outcols>>
    /\ UNCHANGED <<cash, shares, buy_price, avg_cost, action>>
    /\ UNCHANGED <<portfolio_values, cash_history, shares_history, avg_cost_history,
                   trade_log>>

TradeLogReturn ==
    /\ fn = "generate_trade_log" /\ pc = "loop" /\ i > NRows
    /\ pc' = "done"
    /\ UNCHANGED <<params, i, inputs, SignalFlag, outcols, locals, lists>>

\* ------------------------------------------------------------------ Spec
Next ==
    \/ GenerateSignalsStep
    \/ GenerateSignalsReturn
    \/ MacdStep
    \/ MacdReturn
    \/ BuyAndHoldPctChange
    \/ BuyAndHoldCumProd
    \/ BuyAndHoldCopy
    \/ RandomStep
    \/ RandomReturn
    \/ TradeLogStep
    \/ TradeLogReturn

Spec == Init /\ [][Next]_vars

\* The functions that take the dated series, on a malformed one.
NextMalformed ==
    \/ MacdStep
    \/ MacdReturn
    \/ RandomStep
    \/ RandomReturn
    \/ TradeLogStep
    \/ TradeLogReturn

SpecMalformed == InitMalformed /\ [][NextMalformed]_vars

NextRandom ==
    \/ RandomStep
    \/ RandomReturn

SpecRandomWide == InitRandomWide /\ [][NextRandom]_vars

\* ================================================================ claims
Simulators == {"simulate_macd_strategy", "simulate_random_strategy"}
Last(s) == s[Len(s)]

\* C1: in simulate_macd_strategy and simulate_random_strategy every emitted
\* row k satisfies PortfolioValue[k] = Cash[k] + Shares[k] * c_price[k], in
\* the lists while the loop runs and in the columns once they are assigned,
\* whatever trades were made before.
C1_AccountingIdentity ==
    fn \in Simulators =>
        /\ Len(portfolio_values) = i - 1
        /\ Len(cash_history) = i - 1
        /\ Len(shares_history) = i - 1
        /\ \A k \in 1 .. Len(portfolio_values) :
              portfolio_values[k] = cash_history[k] + shares_history[k] * c_price[k]
        /\ pc = "done" =>
              /\ Len(PortfolioValue) = NRows /\ Len(Cash) = NRows /\ Len(Shares) = NRows
              /\ \A k \in 1 .. NRows :
                    PortfolioValue[k] = Cash[k] + Shares[k] * c_price[k]

\* A finished random run that traded twice and still holds shares in its
\* last row, at a price that is not 1.
C1_Witness ==
    /\ fn = "simulate_random_strategy" /\ pc = "done"
    /\ Len(trade_log) >= 2
    /\ NRows = MaxLen
    /\ Shares[NRows] > 0 /\ c_price[NRows] > 1

\* C2: with initial_capital > 0, chunk_size > 0 and prices > 0, cash is never
\* negative in either simulator, after any step, averaging-down buys
\* included.
C2_CashNeverNegative ==
    fn \in Simulators =>
        /\ cash >= 0
        /\ \A k \in 1 .. Len(cash_history) : cash_history[k] >= 0

\* A random run that averaged down and has less than a chunk of cash left.
C2_Witness ==
    /\ fn = "simulate_random_strategy"
    /\ \E n \in 1 .. Len(trade_log) : trade_log[n].Action = "Buy (Averaging Down)"
    /\ cash < chunk_size

\* The cash a row of simulate_macd_strategy would hold were it recorded after
\* the trade of entry e, given the cash of the row before it.
C3_CashBefore(k) == IF k = 1 THEN initial_capital ELSE cash_history[k-1]

\* C3 as claimed: the row of a step that trades holds the cash, shares and
\* value after the trade.
C3_RowIsAfterTrade ==
    fn = "simulate_macd_strategy" =>
        \A n \in 1 .. Len(trade_log) :
            LET e == trade_log[n]
                k == e.Date
            IN  /\ e.Action = "Buy" =>
                      /\ shares_history[k] = e.Shares
                      /\ cash_history[k] = C3_CashBefore(k) - e.Shares * e.Price
                /\ e.Action = "Sell" =>
                      /\ shares_history[k] = 0
                      /\ cash_history[k] = C3_CashBefore(k) + e.Shares * e.Price

\* C3 amended: the row of a step that trades holds the cash, shares and value
\* from before the trade; the trade shows in the next row, when there is one,
\* and in the running cash and shares otherwise.
C3_RowIsBeforeTrade ==
    fn = "simulate_macd_strategy" =>
        \A n \in 1 .. Len(trade_log) :
            LET e == trade_log[n]
                k == e.Date
                cashAfter == IF k < Len(cash_history) THEN cash_history[k+1] ELSE cash
                sharesAfter == IF k < Len(shares_history) THEN shares_history[k+1]
                               ELSE shares
            IN  /\ k <= Len(cash_history)
                /\ portfolio_values[k] = cash_history[k] + shares_history[k] * e.Price
                /\ e.Action = "Buy" =>
                      /\ shares_history[k] = 0
                      /\ sharesAfter = e.Shares
                      /\ cashAfter = cash_history[k] - e.Shares * e.Price
                /\ e.Action = "Sell" =>
                      /\ shares_history[k] = e.Shares
                      /\ sharesAfter = 0
                      /\ cashAfter = cash_history[k] + e.Shares * e.Price

\* The spec's example, with the prices in units of 10: prices [1, 1, 1],
\* signals [Hold, Buy, Sell]; the rows are (c, 0), (c, 0), (0, c) and the
\* run ends with cash c and no shares.
C3_Witness ==
    /\ fn = "simulate_macd_strategy" /\ pc = "done"
    /\ c_price = <<1, 1, 1>> /\ SignalFlag = <<0, 1, -1>>
    /\ Cash = <<initial_capital, initial_capital, 0>>
    /\ Shares = <<0, 0, initial_capital>>
    /\ cash = initial_capital /\ shares = 0
    /\ Len(trade_log) = 2 /\ Val(trade_log[2].PnL) = 0

\* C4 as claimed: the first portfolio value of backtest_buy_and_hold is
\* initial_capital, for every series with a row.
C4_FirstValueIsCapital ==
    (fn = "backtest_buy_and_hold" /\ pc = "done" /\ NRows > 0) =>
        PortfolioValue[1] = Num(initial_capital)

\* C5: in backtest_buy_and_hold every row k after the first has
\* PortfolioValue[k] * price[1] = initial_capital * price[k], which is
\* initial_capital times the product of the (1 + return) up to k, and the call
\* leaves cash, shares and the trade logs alone.
C5_Compounding ==
    fn = "backtest_buy_and_hold" =>
        /\ pc = "done" =>
              /\ Len(PortfolioValue) = NRows
              /\ \A k \in 2 .. NRows :
                    /\ ~IsNaN(PortfolioValue[k])
                    /\ FMul(PortfolioValue[k], Num(c_price[1]))
                          = Num(initial_capital * c_price[k])
                    /\ PortfolioValue[k]
                          = FMul(Num(initial_capital),
                                 ProdSkipNaN([j \in 1 .. k |->
                                     FAdd(Num(1), MarketReturn[j])], k))
        /\ cash = 0 /\ shares = 0 /\ trade_log = <<>> /\ trades = <<>>

\* A finished run over three rows whose price rose and then fell below the
\* first price.
C5_Witness ==
    /\ fn = "backtest_buy_and_hold" /\ pc = "done"
    /\ NRows = 3
    /\ c_price[2] > c_price[1] /\ c_price[3] < c_price[1]
    /\ initial_capital > 1

\* C6: generate_signals holds one flag per row, the first 0, and the flag of
\* every row k it has handled is 1 exactly when fast was below slow at k-1
\* and is above at k, -1 exactly when fast was above slow at k-1 and is below
\* at k, and 0 otherwise, so also whenever the two are equal at k-1 or at k.
C6_StrictCrossover ==
    fn = "generate_signals" =>
        /\ Len(SignalFlag) = Len(MACD)
        /\ Len(SignalFlag) >= 1 => SignalFlag[1] = 0
        /\ pc = "done" => i > Len(MACD)
        /\ \A k \in 2 .. Len(MACD) :
              k < i =>
                /\ SignalFlag[k] \in {-1, 0, 1}
                /\ SignalFlag[k] = 1 <=>
                      (FLt(MACD[k-1], Signal[k-1]) /\ FGt(MACD[k], Signal[k]))
                /\ SignalFlag[k] = -1 <=>
                      (FGt(MACD[k-1], Signal[k-1]) /\ FLt(MACD[k], Signal[k]))
                /\ (MACD[k-1] = Signal[k-1] \/ MACD[k] = Signal[k]) =>
                      SignalFlag[k] = 0

\* The spec's example, [(1,2), (3,2), (1,2)], with 0 and 1 for the values: the
\* flags are Hold, Buy, Sell.
C6_Witness ==
    /\ fn = "generate_signals" /\ pc = "done"
    /\ MACD = <<Num(0), Num(1), Num(0)>>
    /\ Signal = <<Num(1), Num(0), Num(1)>>
    /\ SignalFlag = <<0, 1, -1>>

\* C7: every 'Sell' entry of simulate_random_strategy's log was made at a
\* price above the average cost of its step and has a PnL above 0; a "Sell"
\* decision at a price at or below the average cost logs no 'Sell' entry.
C7_NoLossMakingSale ==
    fn = "simulate_random_strategy" =>
        /\ \A n \in 1 .. Len(trade_log) :
              LET e == trade_log[n]
              IN  e.Action = "Sell" =>
                    /\ e.Signal = "Sell"
                    /\ shares_history[e.Date] > 0
                    /\ FGt(Num(e.Price), avg_cost_history[e.Date])
                    /\ FGt(e.PnL, Num(0))
        /\ \A n \in 1 .. Len(trade_log) :
              LET e == trade_log[n]
              IN  (e.Signal = "Sell" /\ ~FGt(Num(e.Price), avg_cost_history[e.Date]))
                    => e.Action = "Buy (Averaging Down)"

\* A run that bought, averaged down on a "Sell" decision below cost, and then
\* sold above cost.
C7_Witness ==
    /\ fn = "simulate_random_strategy"
    /\ Len(trade_log) = 3
    /\ trade_log[2].Action = "Buy (Averaging Down)"
    /\ trade_log[3].Action = "Sell"

\* The number of entries of the first n of log with the given action.
RECURSIVE CountAction(_, _, _)
CountAction(log, n, a) ==
    IF n = 0 THEN 0
    ELSE CountAction(log, n - 1, a) + (IF log[n].Action = a THEN 1 ELSE 0)

\* C8: the log of generate_trade_log alternates Buy, Sell, Buy, ... from a
\* Buy, and no prefix of it holds more Sell than Buy entries.
C8_TradeLogAlternates ==
    fn = "generate_trade_log" =>
        \A n \in 1 .. Len(trades) :
            /\ trades[n].Action = (IF n % 2 = 1 THEN "Buy" ELSE "Sell")
            /\ CountAction(trades, n, "Sell") <= CountAction(trades, n, "Buy")
            /\ CountAction(trades, n, "Sell") + CountAction(trades, n, "Buy") = n

\* A finished run over Buy, Buy, Sell: the second Buy is left out.
C8_Witness ==
    /\ fn = "generate_trade_log" /\ pc = "done"
    /\ SignalFlag = <<1, 1, -1>>
    /\ Len(trades) = 2

\* A step of the loop of simulate_macd_strategy.
MacdStepTaken == fn = "simulate_macd_strategy" /\ pc = "loop" /\ i' = i + 1

\* C9: a Buy signal while no shares are held buys n shares at the row's
\* price p, n the largest whole number with n * p <= cash; cash falls by
\* n * p, the entry price becomes p and one Buy entry is logged; when n is 0
\* nothing changes and nothing is logged.
C9_BuyWhileFlat ==
    [][(MacdStepTaken /\ SignalFlag[i] = 1 /\ shares = 0) =>
        LET p == c_price[i]
            n == shares'
        IN  /\ n >= 0 /\ n * p <= cash /\ cash < (n + 1) * p
            /\ cash' = cash - n * p
            /\ n > 0 =>
                  /\ buy_price' = Some(p)
                  /\ Len(trade_log') = Len(trade_log) + 1
                  /\ SubSeq(trade_log', 1, Len(trade_log)) = trade_log
                  /\ Last(trade_log').Action = "Buy"
                  /\ Last(trade_log').Shares = n
                  /\ Last(trade_log').Price = p
                  /\ Last(trade_log').Date = date(i)
                  /\ Last(trade_log').PnL = None
            /\ n = 0 =>
                  /\ cash' = cash /\ buy_price' = buy_price /\ buy_price' = None
                  /\ trade_log' = trade_log
      ]_vars

\* After a buy and a sale, a Buy signal at a price the cash does not reach:
\* the third step bought nothing.
C9_Witness ==
    /\ fn = "simulate_macd_strategy" /\ i = 4
    /\ SignalFlag = <<1, -1, 1>>
    /\ Len(trade_log) = 2 /\ trade_log[1].Action = "Buy"
    /\ trade_log[1].Shares * trade_log[1].Price < initial_capital
    /\ cash < c_price[3] /\ shares = 0

\* C10: a Sell signal while s > 0 shares are held sells them all at the row's
\* price p: shares becomes 0, cash rises by s * p, the entry price is cleared
\* and one Sell entry is logged, with Shares = s and PnL = (p - entry) * s,
\* where entry is the price of the last Buy entry of the log.
C10_SellWhileLong ==
    [][(MacdStepTaken /\ SignalFlag[i] = -1 /\ shares > 0) =>
        LET p == c_price[i]
            s == shares
        IN  /\ shares' = 0
            /\ cash' = cash + s * p
            /\ buy_price' = None
            /\ Len(trade_log) > 0 /\ Last(trade_log).Action = "Buy"
            /\ Len(trade_log') = Len(trade_log) + 1
            /\ SubSeq(trade_log', 1, Len(trade_log)) = trade_log
            /\ Last(trade_log').Action = "Sell"
            /\ Last(trade_log').Shares = s
            /\ Last(trade_log').Price = p
            /\ Last(trade_log').Date = date(i)
            /\ Last(trade_log').PnL = Some((p - Last(trade_log).Price) * s)
      ]_vars

\* A position of several shares sold at a price other than its entry price.
C10_Witness ==
    /\ fn = "simulate_macd_strategy"
    /\ Len(trade_log) = 2 /\ trade_log[2].Action = "Sell"
    /\ trade_log[2].Shares > 1
    /\ Val(trade_log[2].PnL) # 0
    /\ shares = 0 /\ buy_price = None

\* ------------------------------------------------------------------- C11
\* What one step of each loop yields, written as a function of the running
\* state the step starts in and of the values of the row it handles (for
\* generate_signals, of that row and the row before it), and of nothing
\* else: no later row is among the arguments.

\* The flag of a row.
C11_Flag(m0, s0, m1, s1) ==
    CASE FLt(m0, s0) /\ FGt(m1, s1) -> 1
      [] FGt(m0, s0) /\ FLt(m1, s1) -> -1
      [] OTHER -> 0

\* simulate_macd_strategy: <<cash, shares, buy_price, new log entries>>.
C11_MacdAfter(c, s, bp, d, p, flag) ==
    LET n == c \div p
    IN  CASE flag = 1 /\ s = 0 /\ n > 0 ->
               <<c - n * p, n, Some(p),
                 <<[Date |-> d, Action |-> "Buy", Shares |-> n, Price |-> p,
                    Signal |-> flag, PnL |-> None]>> >>
          [] flag = -1 /\ s > 0 ->
               <<c + s * p, 0, None,
                 <<[Date |-> d, Action |-> "Sell", Shares |-> s, Price |-> p,
                    Signal |-> flag, PnL |-> Some((p - Val(bp)) * s)]>> >>
          [] OTHER -> <<c, s, bp, <<>> >>

\* A chunk bought by simulate_random_strategy, logged under the given label.
C11_ChunkBought(c, s, ac, d, p, act, chunk, label) ==
    LET n == chunk \div p
        avg == IF s = 0 THEN Num(p)
               ELSE Frac(s * ac[1] + n * p * ac[2], ac[2] * (s + n))
    IN  IF c >= chunk /\ n > 0
        THEN <<c - n * p, s + n, avg,
               <<[Date |-> d, Action |-> label, Shares |-> n, Price |-> p,
                  Chunk |-> chunk, NewAvgCost |-> avg, Signal |-> act]>> >>
        ELSE <<c, s, ac, <<>> >>

\* simulate_random_strategy: <<cash, shares, avg_cost, new log entries>>.
C11_RandomAfter(c, s, ac, d, p, act, chunk) ==
    LET m == IF chunk \div p > s THEN s ELSE chunk \div p
    IN  CASE act = "Buy" -> C11_ChunkBought(c, s, ac, d, p, act, chunk, "Buy")
          [] act = "Sell" /\ s > 0 /\ p * ac[2] > ac[1] /\ m > 0 ->
               <<c + m * p, s - m, IF s = m THEN None ELSE ac,
                 <<[Date |-> d, Action |-> "Sell", Shares |-> m, Price |-> p,
                    Chunk |-> chunk,
                    PnL |-> Frac((p * ac[2] - ac[1]) * m, ac[2]),
                    Signal |-> act]>> >>
          [] act = "Sell" /\ s > 0 /\ p * ac[2] <= ac[1] ->
               C11_ChunkBought(c, s, ac, d, p, act, chunk, "Buy (Averaging Down)")
          [] OTHER -> <<c, s, ac, <<>> >>

\* generate_trade_log: <<entry_price, new log entries>>.
C11_TradeLogAfter(ep, d, p, flag) ==
    CASE flag = 1 /\ ep = None ->
           <<Some(p), <<[Date |-> d, Action |-> "Buy", Price |-> p,
                         SignalFlag |-> flag, PnL |-> None]>> >>
      [] flag = -1 /\ ep # None ->
           <<None, <<[Date |-> d, Action |-> "Sell", Price |-> p,
                      SignalFlag |-> flag, PnL |-> Some(p - Val(ep))]>> >>
      [] OTHER -> <<ep, <<>> >>

\* A step of one of the four loops.
C11_StepTaken == pc = "loop" /\ pc' = "loop" /\ i' = i + 1

\* C11: no look-ahead.  What a step of generate_signals,
\* simulate_macd_strategy, simulate_random_strategy (given its decision) or
\* generate_trade_log adds to the flags, to the portfolio rows and to the
\* trade log, and the running state it leaves, are determined by the running
\* state before the step and by row i (and row i-1 for the flags); what was
\* produced for the rows before i is left as it was.  So two series that
\* agree up to row i give the same flags, rows and log entries up to row i.
C11_NoLookAhead ==
    [][C11_StepTaken =>
        /\ fn = "generate_signals" =>
              /\ SignalFlag'[i] =
                    C11_Flag(MACD[i-1], Signal[i-1], MACD[i], Signal[i])
              /\ \A k \in 1 .. NRows : k # i => SignalFlag'[k] = SignalFlag[k]
        /\ fn = "simulate_macd_strategy" =>
              LET after == C11_MacdAfter(cash, shares, buy_price,
                                         date(i), c_price[i], SignalFlag[i])
              IN  /\ <<cash', shares', buy_price'>> = <<after[1], after[2], after[3]>>
                  /\ trade_log' = trade_log \o after[4]
                  /\ portfolio_values' =
                        Append(portfolio_values, cash + shares * c_price[i])
                  /\ cash_history' = Append(cash_history, cash)
                  /\ shares_history' = Append(shares_history, shares)
        /\ fn = "simulate_random_strategy" =>
              LET after == C11_RandomAfter(cash, shares, avg_cost, date(i),
                                           c_price[i], action', chunk_size)
              IN  /\ <<cash', shares', avg_cost'>> = <<after[1], after[2], after[3]>>
                  /\ trade_log' = trade_log \o after[4]
                  /\ portfolio_values' =
                        Append(portfolio_values, cash + shares * c_price[i])
                  /\ cash_history' = Append(cash_history, cash)
                  /\ shares_history' = Append(shares_history, shares)
        /\ fn = "generate_trade_log" =>
              LET after == C11_TradeLogAfter(entry_price, date(i),
                                             c_price[i], SignalFlag[i])
              IN  /\ entry_price' = after[1]
                  /\ trades' = trades \o after[2]
      ]_vars

\* generate_signals in the middle of a series: row 2 was flagged Buy and
\* row 3, whose values are not those of row 2, is still to be handled.
C11_Witness ==
    /\ fn = "generate_signals" /\ pc = "loop"
    /\ NRows = 3 /\ i = 3
    /\ SignalFlag[2] = 1
    /\ FLt(MACD[3], Signal[3])

\* ------------------------------------------------------------------- C12
\* The columns of the DataFrame a simulator is called with.
C12_InputColumns ==
    IF fn = "simulate_macd_strategy" THEN {"date", "c_price", "SignalFlag"}
    ELSE {"date", "c_price"}

\* C12 as claimed: a simulator leaves the caller's DataFrame as it was, so
\* that no PortfolioValue, Cash or Shares column of it is there for a later
\* run to overwrite.
C12_InputUnchanged ==
    fn \in Simulators =>
        /\ columns = C12_InputColumns
        /\ PortfolioValue = <<>> /\ Cash = <<>> /\ Shares = <<>>

\* ------------------------------------------------------------------- C13
C13_DatesAscend == \A k \in 1 .. NRows - 1 : dates[k] < dates[k+1]

\* C13 as claimed: on a series whose dates do not strictly ascend the
\* simulators and generate_trade_log process no row and return nothing.
C13_MalformedRejected ==
    ~C13_DatesAscend =>
        /\ pc # "done"
        /\ i = 1
        /\ portfolio_values = <<>> /\ trade_log = <<>> /\ trades = <<>>

\* ------------------------------------------------------------------- C14
\* A step of simulate_random_strategy that drew "Sell" with shares held and
\* the row's price above the average cost.
C14_SellAboveCost ==
    /\ fn = "simulate_random_strategy" /\ pc = "loop" /\ i' = i + 1
    /\ action' = "Sell" /\ shares > 0
    /\ c_price[i] * avg_cost[2] > avg_cost[1]

C14_Min(a, b) == IF a < b THEN a ELSE b

\* The largest whole number of shares whose worth at price p is within chunk.
C14_Floor(chunk, p) == CHOOSE n \in 0 .. chunk : n * p <= chunk /\ chunk < (n + 1) * p

\* What the step does to cash, shares and avg_cost when it sells n shares.
C14_Sold(n) ==
    /\ shares' = shares - n /\ shares' >= 0
    /\ cash' = cash + n * c_price[i]
    /\ avg_cost' = IF shares' = 0 THEN None ELSE avg_cost

\* The one Sell entry of n shares.
C14_SellLogged(n) ==
    /\ Len(trade_log') = Len(trade_log) + 1
    /\ SubSeq(trade_log', 1, Len(trade_log)) = trade_log
    /\ Last(trade_log').Action = "Sell"
    /\ Last(trade_log').Shares = n
    /\ Last(trade_log').Price = c_price[i]
    /\ Last(trade_log').PnL =
          Frac((c_price[i] * avg_cost[2] - avg_cost[1]) * n, avg_cost[2])

\* C14 as claimed: such a step sells min(floor(chunk_size / price), shares)
\* shares and logs one Sell entry, whatever that number is.
C14_SellAlwaysLogged ==
    [][C14_SellAboveCost =>
        LET n == C14_Min(C14_Floor(chunk_size, c_price[i]), shares)
        IN  C14_Sold(n) /\ C14_SellLogged(n)
      ]_vars

\* C14 amended: such a step sells n = min(floor(chunk_size / price), shares)
\* shares; when n > 0 cash rises by n * price, one Sell entry is logged with
\* PnL = (price - avg_cost) * n, and avg_cost is cleared exactly when no
\* share is left; when n = 0 (the price is above chunk_size) nothing changes
\* and nothing is logged.
C14_SellChunk ==
    [][C14_SellAboveCost =>
        LET n == C14_Min(C14_Floor(chunk_size, c_price[i]), shares)
        IN  /\ C14_Sold(n)
            /\ n > 0 => C14_SellLogged(n)
            /\ n = 0 => (trade_log' = trade_log /\ avg_cost' = avg_cost)
      ]_vars

\* A position sold off in chunks: the last sale took the one share that was
\* left, fewer than the chunk is worth, and cleared avg_cost, which the sale
\* before it had left alone.
C14_Witness ==
    /\ fn = "simulate_random_strategy"
    /\ Len(trade_log) >= 3
    /\ Last(trade_log).Action = "Sell"
    /\ Last(trade_log).Shares < chunk_size \div Last(trade_log).Price
    /\ trade_log[Len(trade_log) - 1].Action = "Sell"
    /\ shares = 0 /\ avg_cost = None

\* ------------------------------------------------------------------- C15
C15_StepTaken == fn = "simulate_random_strategy" /\ pc = "loop" /\ i' = i + 1

\* The row's price is at or below the average cost.
C15_AtOrBelowCost == c_price[i] * avg_cost[2] <= avg_cost[1]

C15_NoOp ==
    /\ cash' = cash /\ shares' = shares /\ avg_cost' = avg_cost
    /\ trade_log' = trade_log

\* What a Buy decision does in the state the step starts in: with a chunk's
\* worth of cash and a chunk worth a share or more, n = floor(chunk / price)
\* shares are added at the weighted average cost and one entry is logged,
\* under the given label; otherwise nothing.
C15_BuysChunk(label) ==
    LET p == c_price[i]
        n == chunk_size \div p
        avg == IF shares = 0 THEN Num(p)
               ELSE Frac(shares * avg_cost[1] + n * p * avg_cost[2],
                         avg_cost[2] * (shares + n))
    IN  IF cash >= chunk_size /\ n > 0
        THEN /\ cash' = cash - n * p
             /\ shares' = shares + n
             /\ avg_cost' = avg
             /\ Len(trade_log') = Len(trade_log) + 1
             /\ SubSeq(trade_log', 1, Len(trade_log)) = trade_log
             /\ Last(trade_log').Action = label
             /\ Last(trade_log').Shares = n
             /\ Last(trade_log').Price = p
             /\ Last(trade_log').NewAvgCost = avg
        ELSE C15_NoOp

\* C15: a Sell decision with shares held at a price at or below the average
\* cost does to cash, shares and avg_cost what a Buy decision does in the
\* same state, logged as 'Buy (Averaging Down)', and does nothing when cash is
\* below chunk_size; a Sell decision with no shares and a None decision do
\* nothing.
C15_SellBelowCostIsBuy ==
    [][C15_StepTaken =>
        /\ action' = "Buy" => C15_BuysChunk("Buy")
        /\ (action' = "Sell" /\ shares > 0 /\ C15_AtOrBelowCost) =>
              /\ C15_BuysChunk("Buy (Averaging Down)")
              /\ cash < chunk_size => C15_NoOp
        /\ (action' = "Sell" /\ shares = 0) => C15_NoOp
        /\ action' = "None" => C15_NoOp
      ]_vars

\* A run whose last trade averaged down, to an average cost that is no whole
\* number.
C15_Witness ==
    /\ fn = "simulate_random_strategy"
    /\ Len(trade_log) >= 2
    /\ Last(trade_log).Action = "Buy (Averaging Down)"
    /\ avg_cost # None /\ avg_cost[2] > 1

\* ------------------------------------------------------------------- C16
\* The number of entries of log dated before row k.
C16_LoggedBefore(log, k) == Cardinality({n \in 1 .. Len(log) : log[n].Date < k})

\* A trade is open when row k is reached: a Buy is the last entry before it.
C16_OpenAt(log, k) == C16_LoggedBefore(log, k) % 2 = 1

\* C16: of the rows generate_trade_log has handled, exactly those are logged
\* that hold a Buy signal while no trade is open or a Sell signal while one
\* is; a Buy while a trade is open and a Sell while none is are left out.
\* Each entry holds the price of its row, and the PnL of a Sell is its price
\* less the price of the entry before it, the Buy that opened the trade.
C16_FirstBuyOpens ==
    fn = "generate_trade_log" =>
        /\ \A k \in 1 .. i - 1 :
              LET here == {n \in 1 .. Len(trades) : trades[n].Date = k}
                  open == C16_OpenAt(trades, k)
              IN  /\ Cardinality(here) <= 1
                  /\ here # {} <=> ((SignalFlag[k] = 1 /\ ~open)
                                    \/ (SignalFlag[k] = -1 /\ open))
                  /\ \A n \in here :
                        /\ trades[n].Price = c_price[k]
                        /\ trades[n].Action = (IF open THEN "Sell" ELSE "Buy")
        /\ \A n \in 1 .. Len(trades) :
              /\ trades[n].Date < i
              /\ n > 1 => trades[n-1].Date < trades[n].Date
              /\ trades[n].Action = "Buy" => trades[n].PnL = None
              /\ trades[n].Action = "Sell" =>
                    /\ n > 1 /\ trades[n-1].Action = "Buy"
                    /\ trades[n].PnL = Some(trades[n].Price - trades[n-1].Price)
        /\ entry_price = (IF C16_OpenAt(trades, i) THEN Some(Last(trades).Price)
                          ELSE None)

\* A finished run over Buy, Buy, Sell at prices 1, 2 and 3: the trade is
\* opened at 1, the Buy at 2 is left out, and the Sell at 3 has a PnL of 2.
C16_Witness ==
    /\ fn = "generate_trade_log" /\ pc = "done"
    /\ SignalFlag = <<1, 1, -1>> /\ c_price = <<1, 2, 3>>
    /\ Len(trades) = 2
    /\ trades[2].PnL = Some(2)

\* ------------------------------------------------------------------- C17
\* C17: a row of generate_signals whose fast or slow value, or that of the
\* row before it, is missing is flagged Hold; the loop goes on to the rows
\* after it, and the call ends with every row handled.
C17_MissingValueHolds ==
    fn = "generate_signals" =>
        /\ \A k \in 2 .. NRows :
              (k < i /\ (IsNaN(MACD[k-1]) \/ IsNaN(Signal[k-1])
                          \/ IsNaN(MACD[k]) \/ IsNaN(Signal[k])))
                 => SignalFlag[k] = 0
        /\ pc = "done" => i = (IF NRows < 2 THEN 2 ELSE NRows + 1)
        /\ pc = "loop" => i <= NRows + 1 \/ NRows < 2

\* A finished run whose first row has no values, as in the warm-up of a
\* moving average: row 2 is Hold, though fast is below slow there and above
\* it at row 3, which is flagged Buy.
C17_Witness ==
    /\ fn = "generate_signals" /\ pc = "done"
    /\ MACD = <<NaN, Num(0), Num(1)>>
    /\ Signal = <<NaN, Num(1), Num(0)>>
    /\ SignalFlag = <<0, 0, 1>>

\* ------------------------------------------------------------------- C18
\* C18: a step of simulate_macd_strategy whose row is neither a Buy signal
\* with no shares held nor a Sell signal with shares held changes none of
\* cash, shares, the entry price and the trade log.
C18_OtherCombinationsNoOp ==
    [][(/\ MacdStepTaken
        /\ ~(SignalFlag[i] = 1 /\ shares = 0)
        /\ ~(SignalFlag[i] = -1 /\ shares > 0))
          => UNCHANGED <<cash, shares, buy_price, trade_log>>
      ]_vars

\* Three rows handled: a Sell signal with no shares held, a Buy that opens
\* the position, then a second Buy signal at a price the remaining cash
\* could pay; the only entry of the log is the Buy of row 2.
C18_Witness ==
    /\ fn = "simulate_macd_strategy" /\ pc = "loop" /\ i = 4
    /\ SignalFlag = <<-1, 1, 1>>
    /\ Len(trade_log) = 1 /\ trade_log[1].Date = date(2)
    /\ shares > 0 /\ cash >= c_price[3]

\* ------------------------------------------------------------------- C19
\* C19: whatever the flags are, the trade log of simulate_macd_strategy has
\* at most one entry per row handled, in row order, its entries are Buy,
\* Sell, Buy, ... starting with Buy, and each Sell has the Shares of the Buy
\* before it.
C19_LogAlternates ==
    fn = "simulate_macd_strategy" =>
        /\ Len(trade_log) <= i - 1
        /\ \A k \in 1 .. Len(trade_log) :
              /\ trade_log[k].Action = (IF k % 2 = 1 THEN "Buy" ELSE "Sell")
              /\ \E r \in 1 .. i - 1 : trade_log[k].Date = date(r)
              /\ k > 1 => trade_log[k-1].Date < trade_log[k].Date
              /\ k % 2 = 0 => trade_log[k].Shares = trade_log[k-1].Shares

\* Flags with a repeated Sell after a Buy of several shares: the log holds
\* the Buy and the first Sell only.
C19_Witness ==
    /\ fn = "simulate_macd_strategy" /\ pc = "done"
    /\ SignalFlag = <<1, -1, -1>>
    /\ Len(trade_log) = 2
    /\ trade_log[1].Shares > 1 /\ trade_log[2].Date = date(2)

\* ------------------------------------------------------------------- C20
\* C20: in simulate_random_strategy avg_cost is None exactly when no shares
\* are held, and in simulate_macd_strategy buy_price is None exactly when no
\* shares are held, so the cost read by a sale or by the weighted average of
\* a further buy is always defined.
C20_SentinelIffFlat ==
    /\ fn = "simulate_random_strategy" => (avg_cost = None <=> shares = 0)
    /\ fn = "simulate_macd_strategy" => (buy_price = None <=> shares = 0)

\* A position built by a buy and sold off to the last share: the cost is
\* cleared again.
C20_Witness ==
    /\ fn = "simulate_random_strategy"
    /\ Len(trade_log) >= 2
    /\ trade_log[1].Action = "Buy" /\ Last(trade_log).Action = "Sell"
    /\ shares = 0 /\ avg_cost = None

\* ------------------------------------------------------------------- C21
\* Row j of simulate_random_strategy was reached with shares held and less
\* cash than a chunk, and no price from row j to the last row handled is
\* above the average cost of that moment.
C21_StarvedSince(j) ==
    /\ shares_history[j] > 0
    /\ cash_history[j] < chunk_size
    /\ \A k \in j .. Len(cash_history) :
          ~AboveCost(c_price[k], avg_cost_history[j])

\* C21: from a row reached with shares held and cash below chunk_size, as
\* long as no price is above the average cost, cash, shares and avg_cost stay
\* what they were at that row and no trade is logged from that row on,
\* whatever the draws are.
C21_StarvedPositionIsHeld ==
    fn = "simulate_random_strategy" =>
        \A j \in 1 .. Len(cash_history) :
            C21_StarvedSince(j) =>
                /\ cash = cash_history[j]
                /\ shares = shares_history[j]
                /\ avg_cost = avg_cost_history[j]
                /\ \A k \in 1 .. Len(trade_log) : trade_log[k].Date < date(j)

\* A finished run of three rows: all the cash but one unit went into the buy
\* of row 1, the price stayed at the average cost and could be paid from the
\* cash left, and the last draw was a Sell; the buy is the only entry.
C21_Witness ==
    /\ fn = "simulate_random_strategy" /\ pc = "done" /\ NRows = 3
    /\ Len(trade_log) = 1
    /\ C21_StarvedSince(2)
    /\ cash >= c_price[3] /\ action = "Sell"

\* ------------------------------------------------------------------- C22
\* C22: after a row of simulate_random_strategy whose draw was Buy, with c,
\* s and a the cash, shares and average cost the row was reached with, p its
\* price and n = floor(chunk_size / p): if c >= chunk_size and n > 0 then
\* cash is c - n * p, shares is s + n, avg_cost is p when s was 0 and
\* (s * a + n * p) / (s + n) otherwise, and the last log entry is the Buy of
\* n shares at p on that row; otherwise cash, shares and avg_cost are as they
\* were and the log has no entry of that row.
C22_BuyDecision ==
    (fn = "simulate_random_strategy" /\ i > 1 /\ action = "Buy") =>
        LET j == i - 1
            p == c_price[j]
            n == chunk_size \div p
            c == cash_history[j]
            s == shares_history[j]
            a == avg_cost_history[j]
            avg == IF s = 0 THEN Num(p)
                   ELSE Frac(s * a[1] + n * p * a[2], a[2] * (s + n))
        IN  IF c >= chunk_size /\ n > 0
            THEN /\ cash = c - n * p
                 /\ shares = s + n
                 /\ avg_cost = avg
                 /\ Len(trade_log) > 0
                 /\ Last(trade_log).Date = date(j)
                 /\ Last(trade_log).Action = "Buy"
                 /\ Last(trade_log).Shares = n
                 /\ Last(trade_log).Price = p
                 /\ \A k \in 1 .. Len(trade_log) - 1 : trade_log[k].Date < date(j)
            ELSE /\ cash = c
                 /\ shares = s
                 /\ avg_cost = (IF s = 0 THEN None ELSE a)
                 /\ \A k \in 1 .. Len(trade_log) : trade_log[k].Date < date(j)

\* A Buy draw that adds one share at a higher price to two shares held: the
\* average cost moves to a value that is no whole number and is nearer the
\* old cost than the new price.
C22_Witness ==
    /\ fn = "simulate_random_strategy" /\ i > 2 /\ action = "Buy"
    /\ shares_history[i-1] = 2 /\ shares = 3
    /\ Last(trade_log).Action = "Buy" /\ Last(trade_log).Date = date(i-1)
    /\ avg_cost = <<4, 3>>

\* ------------------------------------------------------------------- C23
C23_BuyClass == {"Buy", "Buy (Averaging Down)"}

\* Sums over the first k entries of a log: the shares and the money of the
\* entries whose Action is in the set acts.
RECURSIVE C23_SharesOf(_, _, _)
C23_SharesOf(log, acts, k) ==
    IF k = 0 THEN 0
    ELSE C23_SharesOf(log, acts, k - 1)
         + (IF log[k].Action \in acts THEN log[k].Shares ELSE 0)

RECURSIVE C23_MoneyOf(_, _, _)
C23_MoneyOf(log, acts, k) ==
    IF k = 0 THEN 0
    ELSE C23_MoneyOf(log, acts, k - 1)
         + (IF log[k].Action \in acts THEN log[k].Shares * log[k].Price ELSE 0)

\* C23: in both simulators, cash is the initial capital less the money of
\* the buys logged so far plus the money of the sells logged so far, and
\* shares is the shares bought less the shares sold, never below 0; every
\* entry is a buy or a sell.
C23_LogReconciles ==
    fn \in Simulators =>
        LET n == Len(trade_log)
        IN  /\ \A k \in 1 .. n : trade_log[k].Action \in C23_BuyClass \cup {"Sell"}
            /\ cash = initial_capital
                        - C23_MoneyOf(trade_log, C23_BuyClass, n)
                        + C23_MoneyOf(trade_log, {"Sell"}, n)
            /\ shares = C23_SharesOf(trade_log, C23_BuyClass, n)
                          - C23_SharesOf(trade_log, {"Sell"}, n)
            /\ shares >= 0

\* A log of the random simulator with each kind of entry: a buy, an
\* averaging-down buy and a sale of part of the position.
C23_Witness ==
    /\ fn = "simulate_random_strategy"
    /\ Len(trade_log) = 3
    /\ trade_log[1].Action = "Buy"
    /\ trade_log[2].Action = "Buy (Averaging Down)"
    /\ trade_log[3].Action = "Sell"
    /\ shares > 0 /\ cash # initial_capital

\* ------------------------------------------------------------------- C24
\* C24: in the flags of generate_signals no two adjacent rows are both Buy
\* and no two adjacent rows are both Sell, whatever the two series are.
C24_NoRepeatedFlag ==
    fn = "generate_signals" =>
        \A k \in 1 .. NRows - 1 :
            SignalFlag[k] # 0 => SignalFlag[k+1] # SignalFlag[k]

\* A finished run in which the fast line crosses above the slow one at row 2
\* and is still above it at row 3: row 2 is Buy, row 3 is Hold.
C24_Witness ==
    /\ fn = "generate_signals" /\ pc = "done" /\ NRows = 3
    /\ SignalFlag = <<0, 1, 0>>
    /\ FGt(MACD[3], Signal[3])

====
